---------------------------- MODULE Spec2Model ----------------------------
(***************************************************************************)
(* The user component of the charging simulation: the epoch gate of        *)
(* UserComponent (user_component.py) and its three-message fan-out.        *)
(*                                                                         *)
(* A component instance is driven by events that the message bus delivers  *)
(* to it: epoch signals of the coordinator and messages of other           *)
(* components.  Delivered events wait in inbox and are handled one at a    *)
(* time; a handler that starts process_epoch is suspended at the output    *)
(* delay and at every publish call, and pc is its position.                *)
(*                                                                         *)
(* UserComponent.__init__ assigns neither _input_components nor            *)
(* _output_delay and calls the base class without arguments; the model     *)
(* takes both as configuration the component holds after construction, as  *)
(* section 3 of the specification describes them.  The assignment of       *)
(* _user_state_topic_output is commented out in __init__ (line 96), so the *)
(* model has no such attribute and reading it raises AttributeError.       *)
(***************************************************************************)
EXTENDS Integers, Sequences, FiniteSets, TLC

\* ------------------------------------------------------------- bounds
MaxEpoch == 2
MaxMessages == 3
MaxInbox == 2
MaxFields == 2

\* ------------------------------------------------------- the universe
\* Names of components that send messages; "D" is never configured as input.
ConfigurableNames == {"A", "B"}
SourceIds == ConfigurableNames \cup {"D"}
MessageTypes == {"UserStateMessage", "OtherMessage"}

\* The value of INPUT_COMPONENTS as the list of its comma-separated fields
\* (what str.split(",") returns: at least one field, fields may be empty).
EnvValues == UNION {[1..n -> ConfigurableNames \cup {""}] : n \in 1..MaxFields}

\* create_component: the set of the non-empty names of INPUT_COMPONENTS.
input_components_of(fields) ==
    {fields[i] : i \in {j \in DOMAIN fields : fields[j] # ""}}

\* Values of the constructor parameters the user-state message is built from.
USER_ID_VALUE == [type |-> "int", value |-> "0"]
TARGET_TIME_VALUE == [type |-> "str", value |-> "2020-01-01T12:00:00Z"]
TargetStateOfChargeValues ==
    {[type |-> "float", value |-> "80.0"], [type |-> "str", value |-> "80"]}

component_name == "user1"

VARIABLES
    input_components,          \* _input_components: RequiredSources
    target_state_of_charge,    \* _target_state_of_charge
    current_input_components,  \* _current_input_components: ReceivedSet
    triggering_message_ids,    \* _triggering_message_ids: TriggeringIds
    latest_epoch,              \* _latest_epoch
    completed_epoch,           \* _completed_epoch
    pc,                        \* position of the in-flight process_epoch
    inbox,                     \* events delivered by the bus, not yet handled
    published,                 \* messages handed to the bus, in order
    errors,                    \* send_error_message calls: [epoch, kind]
    status_ready,              \* epochs reported ready to the coordinator
    raised,                    \* epochs whose handler ended with an exception
    \* observers of the run, read by no operation
    delivered,                 \* every message the bus has delivered
    heard,                     \* sources whose UserStateMessage was handled in this epoch
    qualifying,                \* per epoch, ids of the first message of each required source
    invoked,                   \* per epoch, number of process_epoch invocations
    last_invocation,           \* epoch and ReceivedSet at the latest invocation of process_epoch
    last_handled,              \* the event handled last, and what the handler did
    attempts,                  \* per epoch, the kinds whose send was called, in order
    \* a construction or a message round trip examined on its own
    call

vars == <<input_components, target_state_of_charge, current_input_components,
          triggering_message_ids, latest_epoch, completed_epoch, pc, inbox,
          published, errors, status_ready, raised, delivered, heard,
          qualifying, invoked, last_invocation, last_handled, attempts, call>>

config == <<input_components, target_state_of_charge>>
observers == <<delivered, heard, qualifying, invoked, last_invocation, last_handled>>
NoCall == [phase |-> "none"]

Epochs == 0..MaxEpoch
NoEvent == [type |-> "none"]

Range(s) == {s[i] : i \in DOMAIN s}


\* ---------------------------------------------------------- messages
\* An inbound message of another component.
Message(type, source, id) ==
    [type |-> type, source_process_id |-> source, message_id |-> id]

\* The epoch signal of the coordinator.
EpochEvent(n) == [type |-> "Epoch", epoch_number |-> n]

\* Output topics: a topic base joined with the component's name.
car_state_topic_output == <<"User.CarState", component_name>>
car_metadata_topic_output == <<"Init.User.CarMetadata", component_name>>

\* The default topic bases of the three kinds (lines 90-92).
topic_base(kind) ==
    CASE kind = "UserState" -> "User.UserState"
      [] kind = "CarState" -> "User.CarState"
      [] kind = "CarMetaData" -> "Init.User.CarMetadata"

\* The output topic attributes __init__ assigns, by the kind published to
\* them.  The assignment of _user_state_topic_output (line 96) is commented
\* out: the component has no topic for the user-state message.
output_topics ==
    [kind \in {"CarState", "CarMetaData"} |->
        IF kind = "CarState" THEN car_state_topic_output
                             ELSE car_metadata_topic_output]

\* A message stamped with the number of the last completed epoch.
get_message_completed_epoch(kind, topic) ==
    [kind |-> kind,
     EpochNumber |-> completed_epoch,
     TriggeringMessageIds |-> triggering_message_ids,
     topic |-> topic]

\* An outbound message as the message generator stamps it.
get_message(kind, topic) ==
    [kind |-> kind,
     EpochNumber |-> latest_epoch,
     TriggeringMessageIds |-> triggering_message_ids,
     topic |-> topic]

\* UserStateMessage: the three setters' type checks.
check_user_id(user_id) == user_id.type \in {"int", "bool"}
check_target_state_of_charge(soc) == soc.type = "float"
check_target_time(target_time) == target_time.type = "str"

UserStateMessageValid(user_id, soc, target_time) ==
    /\ check_user_id(user_id)
    /\ check_target_state_of_charge(soc)
    /\ check_target_time(target_time)

\* ------------------------------------------------------ construction
\* The sets of required sources a component can be configured with.  No
\* line of user_component.py stores the constructor's input_components;
\* the component is taken to hold the configured set (specification,
\* section 3: fixed at construction time).
ConfiguredInputComponents == {input_components_of(f) : f \in EnvValues}

\* The state __init__ leaves a component in, given its configuration.
Fresh(configured_inputs, configured_target) ==
    /\ input_components = configured_inputs
    /\ target_state_of_charge = configured_target
    /\ current_input_components = {}
    /\ triggering_message_ids = <<>>
    /\ latest_epoch = 0
    /\ completed_epoch = 0
    /\ pc = "idle"
    /\ inbox = <<>>
    /\ published = <<>>
    /\ errors = {}
    /\ status_ready = {}
    /\ raised = {}
    /\ delivered = {}
    /\ heard = {}
    /\ qualifying = [e \in Epochs |-> <<>>]
    /\ invoked = [e \in Epochs |-> 0]
    /\ last_invocation = [epoch |-> 0, received |-> {}]
    /\ last_handled = [event |-> NoEvent, seen_before |-> FALSE]
    /\ attempts = [e \in Epochs |-> <<>>]

Init ==
    /\ \E configured_inputs \in ConfiguredInputComponents,
          configured_target \in TargetStateOfChargeValues :
          Fresh(configured_inputs, configured_target)
    /\ call = NoCall

\* ------------------------------------------------------ the epoch gate
\* A reset that keeps what the previous epoch registered.
clear_epoch_variables_keep == current_input_components' = current_input_components

\* clear_epoch_variables: a fresh ReceivedSet.
clear_epoch_variables == current_input_components' = {}

\* Readiness that only asks for nothing unexpected to have been received.
all_messages_received_subset == current_input_components \subseteq input_components

\* Readiness that is satisfied by the first registration.
all_messages_received_any ==
    input_components = {} \/ current_input_components # {}

\* Readiness that waits for at least one registration.
all_messages_received_nonempty ==
    /\ current_input_components # {}
    /\ input_components = current_input_components

\* all_messages_received_for_epoch: EpochReadiness.
all_messages_received_for_epoch == input_components = current_input_components

\* The call of process_epoch, up to its first suspension (the output delay).
process_epoch_begin ==
    /\ pc' = "delay"
    /\ invoked' = [invoked EXCEPT ![latest_epoch'] = @ + 1]
    /\ last_invocation' = [epoch |-> latest_epoch',
                           received |-> current_input_components']

\* start_epoch of the base class, evaluated on the state the handler has
\* produced so far: nothing for an epoch already completed, nothing while
\* inputs are missing, otherwise process_epoch.
start_epoch ==
    IF completed_epoch # latest_epoch' /\ all_messages_received_for_epoch'
    THEN process_epoch_begin
    ELSE /\ pc' = "idle"
         /\ UNCHANGED <<invoked, last_invocation>>

\* Lines 200-206: register the source, record the id, try to start the epoch.
register_input(message_object) ==
    /\ current_input_components' =
           current_input_components \cup {message_object.source_process_id}
    /\ triggering_message_ids' =
           Append(triggering_message_ids, message_object.message_id)
    /\ start_epoch

\* A branch of the handler that only logs.
ignore_message ==
    UNCHANGED <<current_input_components, triggering_message_ids, pc,
                invoked, last_invocation>>

\* The handler without its branch for an already registered source.
general_message_handler_no_duplicate_check(message_object) ==
    IF message_object.type = "UserStateMessage"
    THEN IF message_object.source_process_id \notin input_components
         THEN ignore_message
         ELSE register_input(message_object)
    ELSE ignore_message

\* The handler without its branch for a source that is not an input component.
general_message_handler_no_registration_check(message_object) ==
    IF message_object.type = "UserStateMessage"
    THEN IF message_object.source_process_id \in current_input_components
         THEN ignore_message
         ELSE register_input(message_object)
    ELSE ignore_message

\* The handler recording the id of every message of an input component.
general_message_handler_records_duplicates(message_object) ==
    IF message_object.type = "UserStateMessage"
    THEN IF message_object.source_process_id \notin input_components
         THEN ignore_message
         ELSE IF message_object.source_process_id \in current_input_components
              THEN /\ triggering_message_ids' =
                         Append(triggering_message_ids, message_object.message_id)
                   /\ UNCHANGED <<current_input_components, pc, invoked,
                                  last_invocation>>
              ELSE register_input(message_object)
    ELSE ignore_message

\* The handler of a component that stops listening once a send has failed.
general_message_handler_disabled_after_error(message_object) ==
    IF message_object.type = "UserStateMessage" /\ errors = {}
    THEN IF message_object.source_process_id \notin input_components
         THEN ignore_message
         ELSE IF message_object.source_process_id \in current_input_components
              THEN ignore_message
              ELSE register_input(message_object)
    ELSE ignore_message

\* The handler without its test of the message's class.
general_message_handler_any_type(message_object) ==
    IF message_object.source_process_id \notin input_components
    THEN ignore_message
    ELSE IF message_object.source_process_id \in current_input_components
         THEN ignore_message
         ELSE register_input(message_object)

general_message_handler(message_object) ==
    IF message_object.type = "UserStateMessage"
    THEN IF message_object.source_process_id \notin input_components
         THEN ignore_message
         ELSE IF message_object.source_process_id \in current_input_components
              THEN ignore_message
              ELSE register_input(message_object)
    ELSE ignore_message

\* The base class on an epoch signal of a new epoch: the epoch number is
\* taken over, TriggeringIds and the epoch variables are cleared, and the
\* epoch is started if nothing has to be waited for.
epoch_message_handler(message_object) ==
    /\ latest_epoch' = message_object.epoch_number
    /\ triggering_message_ids' = <<>>
    /\ clear_epoch_variables
    /\ start_epoch

\* ------------------------------------------------------------- the bus
\* The epoch the coordinator announces next.
NextEpochNumber ==
    LET announced == {latest_epoch} \cup
            {inbox[i].epoch_number : i \in {j \in DOMAIN inbox : inbox[j].type = "Epoch"}}
    IN  (CHOOSE n \in announced : \A m \in announced : m <= n) + 1

frame_deliver ==
    UNCHANGED <<config, current_input_components, triggering_message_ids,
                latest_epoch, completed_epoch, pc, published, errors,
                status_ready, raised, heard, qualifying, invoked,
                last_invocation, last_handled, attempts, call>>

\* The bus delivers a message of another component; it waits in inbox.
DeliverMessage ==
    /\ Len(inbox) < MaxInbox
    /\ Cardinality(delivered) < MaxMessages
    /\ \E type \in MessageTypes, source \in SourceIds :
          LET m == Message(type, source, Cardinality(delivered) + 1)
          IN  /\ inbox' = Append(inbox, m)
              /\ delivered' = delivered \cup {m}
    /\ frame_deliver

\* The coordinator announces the next epoch.
DeliverEpoch ==
    /\ Len(inbox) < MaxInbox
    /\ NextEpochNumber <= MaxEpoch
    /\ inbox' = Append(inbox, EpochEvent(NextEpochNumber))
    /\ delivered' = delivered
    /\ frame_deliver

\* What the run's observers record of the handling of one event.
Observe(ev) ==
    /\ delivered' = delivered
    /\ last_handled' =
          [event |-> ev,
           seen_before |-> ev.type = "UserStateMessage"
                           /\ ev.source_process_id \in heard]
    /\ heard' = CASE ev.type = "Epoch" -> {}
                  [] ev.type = "UserStateMessage" -> heard \cup {ev.source_process_id}
                  [] OTHER -> heard
    /\ qualifying' =
          IF /\ ev.type = "UserStateMessage"
             /\ ev.source_process_id \in input_components
             /\ ev.source_process_id \notin heard
          THEN [qualifying EXCEPT ![latest_epoch] = Append(@, ev.message_id)]
          ELSE qualifying

\* An epoch signal handled at once, also while process_epoch is suspended.
HandleEpoch_interleaved ==
    /\ inbox # <<>>
    /\ Head(inbox).type = "Epoch"
    /\ inbox' = Tail(inbox)
    /\ UNCHANGED <<config, completed_epoch, published, errors, status_ready,
                   raised, attempts, call>>
    /\ epoch_message_handler(Head(inbox))
    /\ Observe(Head(inbox))

\* The component takes the next event when no handler is in flight.
HandleEpoch ==
    /\ pc = "idle"
    /\ inbox # <<>>
    /\ Head(inbox).type = "Epoch"
    /\ inbox' = Tail(inbox)
    /\ UNCHANGED <<config, completed_epoch, published, errors, status_ready,
                   raised, attempts, call>>
    /\ epoch_message_handler(Head(inbox))
    /\ Observe(Head(inbox))

HandleMessage ==
    /\ pc = "idle"
    /\ inbox # <<>>
    /\ Head(inbox).type # "Epoch"
    /\ inbox' = Tail(inbox)
    /\ UNCHANGED <<config, latest_epoch, completed_epoch, published, errors,
                   status_ready, raised, attempts, call>>
    /\ general_message_handler(Head(inbox))
    /\ Observe(Head(inbox))

\* --------------------------------------------------------- the fan-out
frame_fanout ==
    UNCHANGED <<config, current_input_components, triggering_message_ids,
                latest_epoch, inbox, observers, call>>

\* A process_epoch that sends the user-state message first.
process_epoch_next_user_state_first(position) ==
    CASE position = "delay" -> "send_user_state"
      [] position = "send_user_state" -> "send_car_metadata"
      [] position = "send_car_metadata" -> "send_car_state"
      [] OTHER -> "idle"

\* process_epoch lines 153-163: where the coroutine continues after the
\* await at a position has returned.
process_epoch_next(position) ==
    CASE position = "delay" -> "send_car_metadata"
      [] position = "send_car_metadata" -> "send_user_state"
      [] position = "send_user_state" -> "send_car_state"
      [] OTHER -> "idle"

\* The call of a send method is recorded.
attempt(kind) ==
    attempts' = [attempts EXCEPT ![latest_epoch] = Append(@, kind)]

\* process_epoch line 153: the output delay elapses.
OutputDelay ==
    /\ pc = "delay"
    /\ pc' = process_epoch_next(pc)
    /\ UNCHANGED <<completed_epoch, published, errors, status_ready, raised,
                   attempts>>
    /\ frame_fanout

\* A send whose message is built and published.
send_ok(kind, topic) ==
    /\ published' = Append(published, get_message(kind, topic))
    /\ errors' = errors

\* A send whose message cannot be built or published: the except clause
\* logs and calls send_error_message.
send_failed(kind) ==
    /\ published' = published
    /\ errors' = errors \cup {[epoch |-> latest_epoch, kind |-> kind]}

\* _send_car_metadata_message
SendCarMetadata ==
    /\ pc = "send_car_metadata"
    /\ \E built \in BOOLEAN :
          IF built THEN send_ok("CarMetaData", output_topics["CarMetaData"])
                   ELSE send_failed("CarMetaData")
    /\ attempt("CarMetaData")
    /\ pc' = process_epoch_next(pc)
    /\ UNCHANGED <<completed_epoch, status_ready, raised>>
    /\ frame_fanout

\* _send_user_state_message: a message that fails its checks is caught by
\* the except clause; a message that is built reaches send_message, whose
\* argument self._user_state_topic_output does not exist: AttributeError
\* is not among the caught exceptions and ends process_epoch and the handler.
SendUserState ==
    /\ pc = "send_user_state"
    /\ IF UserStateMessageValid(USER_ID_VALUE, target_state_of_charge, TARGET_TIME_VALUE)
       THEN IF "UserState" \in DOMAIN output_topics
            THEN /\ send_ok("UserState", output_topics["UserState"])
                 /\ pc' = process_epoch_next(pc)
                 /\ raised' = raised
            ELSE /\ pc' = "idle"
                 /\ raised' = raised \cup {latest_epoch}
                 /\ UNCHANGED <<published, errors>>
       ELSE /\ send_failed("UserState")
            /\ pc' = process_epoch_next(pc)
            /\ raised' = raised
    /\ attempt("UserState")
    /\ UNCHANGED <<completed_epoch, status_ready>>
    /\ frame_fanout

\* _send_car_state_message, then process_epoch returns True and start_epoch
\* marks the epoch completed and reports ready.
SendCarState ==
    /\ pc = "send_car_state"
    /\ \E built \in BOOLEAN :
          IF built THEN send_ok("CarState", output_topics["CarState"])
                   ELSE send_failed("CarState")
    /\ attempt("CarState")
    /\ pc' = process_epoch_next(pc)
    /\ completed_epoch' = latest_epoch
    /\ status_ready' = status_ready \cup {latest_epoch}
    /\ raised' = raised
    /\ frame_fanout

Next ==
    \/ DeliverMessage
    \/ DeliverEpoch
    \/ HandleEpoch
    \/ HandleMessage
    \/ OutputDelay
    \/ SendCarMetadata
    \/ SendUserState
    \/ SendCarState

Spec == Init /\ [][Next]_vars

\* The event loop: a delivered event is handled once the handler in flight
\* has ended, and a suspended process_epoch is resumed when its await
\* returns.  Nothing obliges the bus to deliver anything.
Fairness ==
    /\ WF_vars(HandleEpoch)
    /\ WF_vars(HandleMessage)
    /\ WF_vars(OutputDelay)
    /\ WF_vars(SendCarMetadata)
    /\ WF_vars(SendUserState)
    /\ WF_vars(SendCarState)

FairSpec == Spec /\ Fairness

\* ------------------------------------------------- construction alone
\* The variables of the running component, unused while a construction or
\* a round trip is examined on its own.
component_vars == <<input_components, target_state_of_charge,
                    current_input_components, triggering_message_ids,
                    latest_epoch, completed_epoch, pc, inbox, published,
                    errors, status_ready, raised, delivered, heard, qualifying,
                    invoked, last_invocation, last_handled, attempts>>

OutputDelayValues == {"0.0", "1.5", "60.0"}

\* The names bound in create_component when it calls the constructor.
create_component_names ==
    {"user_id", "user_name", "station_id", "state_of_charge",
     "car_battery_capacity", "car_model", "car_max_power",
     "target_state_of_charge", "target_time", "input_components",
     "output_delay"}

\* The names the constructor call of lines 323-333 evaluates.
constructor_call_names ==
    {"user_id", "user_name", "station_id", "state_of_charge",
     "car_battery_capacity", "car_model", "car_max_power",
     "ctarget_state_of_charge", "target_time"}

\* The attributes UserComponent.__init__ assigns from its parameters and
\* for its bookkeeping (lines 63-71, 83, 95-102).
init_attributes(configured_inputs, configured_delay) ==
    [name \in {"_user_id", "_user_name", "_station_id", "_state_of_charge",
               "_car_battery_capacity", "_car_model", "_car_max_power",
               "_target_state_of_charge", "_target_time",
               "_current_input_components", "_user_state_topic_base",
               "_car_state_topic_base", "_car_state_topic_output",
               "_car_metadata_topic_base", "_car_metadata_topic_output",
               "_other_topics"} |->
        IF name = "_current_input_components" THEN {} ELSE name]

\* create_component has read the environment.
ConstructionInit ==
    /\ Fresh({}, [type |-> "float", value |-> "80.0"])
    /\ \E fields \in EnvValues, delay \in OutputDelayValues :
          call = [phase |-> "environment",
                  INPUT_COMPONENTS |-> fields,
                  OUTPUT_DELAY |-> delay]

\* create_component lines 314-320: the set of input components.
ParseInputComponents ==
    /\ call.phase = "environment"
    /\ call' = [phase |-> "parsed",
                INPUT_COMPONENTS |-> call.INPUT_COMPONENTS,
                input_components |-> input_components_of(call.INPUT_COMPONENTS),
                output_delay |-> call.OUTPUT_DELAY]
    /\ UNCHANGED component_vars

\* create_component lines 323-333: the arguments of the constructor call
\* are evaluated; a name that is not bound raises NameError before the
\* constructor is entered.
CallConstructor ==
    /\ call.phase = "parsed"
    /\ call' = IF constructor_call_names \subseteq create_component_names
               THEN [phase |-> "TypeError",
                     INPUT_COMPONENTS |-> call.INPUT_COMPONENTS,
                     input_components |-> call.input_components,
                     output_delay |-> call.output_delay]
               ELSE [phase |-> "NameError",
                     INPUT_COMPONENTS |-> call.INPUT_COMPONENTS,
                     input_components |-> call.input_components,
                     output_delay |-> call.output_delay]
    /\ UNCHANGED component_vars

\* UserComponent(...) called with all eleven parameters: __init__.
Construct ==
    /\ call.phase = "parsed"
    /\ call' = [phase |-> "constructed",
                INPUT_COMPONENTS |-> call.INPUT_COMPONENTS,
                input_components |-> call.input_components,
                output_delay |-> call.output_delay,
                attributes |-> init_attributes(call.input_components,
                                               call.output_delay)]
    /\ UNCHANGED component_vars

ConstructionNext ==
    \/ ParseInputComponents
    \/ CallConstructor
    \/ Construct

ConstructionSpec == ConstructionInit /\ [][ConstructionNext]_vars

\* ------------------------------------------- user-state message alone
\* Python values by type; a float is written as Python prints it.
UserIdInputs ==
    {[type |-> "int", value |-> "0"], [type |-> "int", value |-> "7"],
     [type |-> "bool", value |-> "True"], [type |-> "str", value |-> "7"],
     [type |-> "float", value |-> "7.0"]}
TargetStateOfChargeInputs ==
    {[type |-> "float", value |-> "80.0"], [type |-> "float", value |-> "nan"],
     [type |-> "float", value |-> "inf"], [type |-> "int", value |-> "80"],
     [type |-> "str", value |-> "80"]}
TargetTimeInputs ==
    {[type |-> "str", value |-> "2020-01-01T12:00:00Z"],
     [type |-> "str", value |-> ""], [type |-> "int", value |-> "0"]}

None == [type |-> "None"]

\* The message in its wire format: what json.dumps writes for a value.
json_dumps(v) ==
    CASE v.type = "int" -> [json |-> "integer", text |-> v.value]
      [] v.type = "bool" -> [json |-> "literal", text |-> "true"]
      [] v.type = "str" -> [json |-> "string", text |-> v.value]
      [] v.type = "float" /\ v.value = "nan" -> [json |-> "constant", text |-> "NaN"]
      [] v.type = "float" /\ v.value = "inf" -> [json |-> "constant", text |-> "Infinity"]
      [] OTHER -> [json |-> "real", text |-> v.value]

\* What json.loads reads from the wire format.
json_loads(t) ==
    CASE t.json = "integer" -> [type |-> "int", value |-> t.text]
      [] t.json = "literal" -> [type |-> "bool", value |-> "True"]
      [] t.json = "string" -> [type |-> "str", value |-> t.text]
      [] t.json = "constant" /\ t.text = "NaN" -> [type |-> "float", value |-> "nan"]
      [] t.json = "constant" -> [type |-> "float", value |-> "inf"]
      [] OTHER -> [type |-> "float", value |-> t.text]

\* Python's == on two values of the kinds above: a NaN equals nothing.
py_eq(a, b) ==
    /\ ~(a.type = "float" /\ a.value = "nan")
    /\ ~(b.type = "float" /\ b.value = "nan")
    /\ a = b

\* UserStateMessage(UserId=..., TargetStateOfCharge=..., TargetTime=...):
\* the setters store a value that passes its check and raise
\* MessageValueError otherwise.
new_user_state_message(user_id, soc, target_time) ==
    IF UserStateMessageValid(user_id, soc, target_time)
    THEN [type |-> "UserStateMessage", user_id |-> user_id,
          target_state_of_charge |-> soc, target_time |-> target_time]
    ELSE [type |-> "MessageValueError"]

\* UserStateMessage.__eq__ on the three fields of the class.
user_state_message_eq(a, b) ==
    /\ a.type = "UserStateMessage"
    /\ b.type = "UserStateMessage"
    /\ py_eq(a.user_id, b.user_id)
    /\ py_eq(a.target_state_of_charge, b.target_state_of_charge)
    /\ py_eq(a.target_time, b.target_time)

\* The JSON object of a message.
message_json(message) ==
    [UserId |-> json_dumps(message.user_id),
     TargetStateOfCharge |-> json_dumps(message.target_state_of_charge),
     TargetTime |-> json_dumps(message.target_time)]

\* UserStateMessage.from_json: the constructor on the parsed object, None
\* for the exceptions of the except clause.
from_json(json_message) ==
    LET built == new_user_state_message(json_loads(json_message.UserId),
                                        json_loads(json_message.TargetStateOfCharge),
                                        json_loads(json_message.TargetTime))
    IN  IF built.type = "MessageValueError" THEN None ELSE built

\* Either the arguments of a construction, or a JSON object from the bus.
RoundTripInit ==
    /\ Fresh({}, [type |-> "float", value |-> "80.0"])
    /\ \E user_id \in UserIdInputs, soc \in TargetStateOfChargeInputs,
          target_time \in TargetTimeInputs :
          \/ call = [phase |-> "arguments", user_id |-> user_id,
                     target_state_of_charge |-> soc, target_time |-> target_time]
          \/ call = [phase |-> "received", original |-> None,
                     json |-> [UserId |-> json_dumps(user_id),
                               TargetStateOfCharge |-> json_dumps(soc),
                               TargetTime |-> json_dumps(target_time)]]

\* The message generator builds the message.
NewUserStateMessage ==
    /\ call.phase = "arguments"
    /\ call' = [phase |-> "built",
                message |-> new_user_state_message(call.user_id,
                               call.target_state_of_charge, call.target_time)]
    /\ UNCHANGED component_vars

\* user_state_message.bytes(): the message as published.
Bytes ==
    /\ call.phase = "built"
    /\ call.message.type = "UserStateMessage"
    /\ call' = [phase |-> "received", original |-> call.message,
                json |-> message_json(call.message)]
    /\ UNCHANGED component_vars

\* A receiver parses the JSON object.
FromJson ==
    /\ call.phase = "received"
    /\ call' = [phase |-> "parsed", original |-> call.original,
                json |-> call.json, result |-> from_json(call.json)]
    /\ UNCHANGED component_vars

RoundTripNext ==
    \/ NewUserStateMessage
    \/ Bytes
    \/ FromJson

RoundTripSpec == RoundTripInit /\ [][RoundTripNext]_vars

\* ------------------------------------------------------------ claims
AllHeard == input_components \subseteq heard

\* C1: for every epoch number, whatever messages arrive (duplicates of
\* registered sources, messages after the gate fired), process_epoch is
\* invoked at most once.
C1_AtMostOneInvocationPerEpoch == \A e \in Epochs : invoked[e] <= 1

\* A duplicate of a registered source has been handled after the gate fired.
C1_Witness ==
    /\ latest_epoch > 0
    /\ invoked[latest_epoch] = 1
    /\ pc = "idle"
    /\ last_handled.seen_before
    /\ last_handled.event.source_process_id \in input_components

\* C2: with a non-empty set of required sources, whenever process_epoch
\* starts, every required source has delivered a UserStateMessage in the
\* epoch and ReceivedSet equals RequiredSources.
C2_InvokedOnlyWhenAllReceived ==
    (pc = "delay" /\ input_components # {}) =>
        /\ current_input_components = input_components
        /\ last_invocation.received = input_components
        /\ AllHeard

C2_Witness == pc = "delay" /\ Cardinality(input_components) = 2

\* C3: readiness is true exactly when all n required sources have delivered
\* a UserStateMessage in the epoch, whatever the order and the duplicates.
C3_ReadyExactlyWhenAllRegistered ==
    all_messages_received_for_epoch <=>
        Cardinality(heard \cap input_components) = Cardinality(input_components)

\* Two required sources have reported, "B" before "A".
C3_Witness ==
    /\ Cardinality(input_components) = 2
    /\ all_messages_received_for_epoch
    /\ Len(qualifying[latest_epoch]) = 2
    /\ \E m \in delivered :
          /\ m.message_id = qualifying[latest_epoch][1]
          /\ m.source_process_id = "B"
    /\ last_handled.event.type = "UserStateMessage"
    /\ ~last_handled.seen_before

OutputKinds == {"CarMetaData", "UserState", "CarState"}

\* The number of published messages of a kind that carry an epoch number.
PublishedCount(kind, e) ==
    Cardinality({i \in DOMAIN published :
                    published[i].kind = kind /\ published[i].EpochNumber = e})

\* The fan-out of epoch e has run and is no longer in flight.
FanoutEnded(e) ==
    /\ invoked[e] >= 1
    /\ ~(pc # "idle" /\ last_invocation.epoch = e)

\* A step that handles an inbound event.
Handles == last_handled' # last_handled
Handled == last_handled'.event

\* C4: in every epoch whose required sources have all reported and in which
\* no send reported an error, exactly one message of each of the three kinds
\* is published.
C4_ThreeMessagesPerSatisfiedEpoch ==
    \A e \in 1..MaxEpoch :
        (FanoutEnded(e) /\ ~(\E x \in errors : x.epoch = e)) =>
            \A kind \in OutputKinds : PublishedCount(kind, e) = 1

\* C5: every message the fan-out of epoch E publishes carries epoch number E
\* and the ids of the qualifying messages registered in E, whatever has been
\* delivered while the fan-out was suspended.
C5_OutputsCarryEpochAndTriggeringIds ==
    [][Len(published') > Len(published) =>
          LET m == published'[Len(published')]
              E == last_invocation.epoch
          IN  /\ m.EpochNumber = E
              /\ m.TriggeringMessageIds = qualifying[E]]_vars

\* A message of epoch 1 with one triggering id has been published while an
\* epoch signal and another message were waiting.
C5_Witness ==
    /\ pc = "send_user_state"
    /\ published # <<>>
    /\ published[Len(published)].EpochNumber = latest_epoch
    /\ Len(published[Len(published)].TriggeringMessageIds) >= 1
    /\ Len(inbox) = 2
    /\ inbox[1].type = "Epoch"
    /\ inbox[2].type = "UserStateMessage"

\* The ids of the messages that came from sources that are not required.
UnregisteredIds ==
    {m.message_id : m \in {x \in delivered : x.source_process_id \notin input_components}}

\* C6: a UserStateMessage of a source outside RequiredSources changes neither
\* ReceivedSet nor TriggeringIds nor readiness, invokes nothing and raises
\* nothing, and its id is in no outbound message.
C6_UnregisteredSourceIgnored ==
    /\ [][(/\ Handles
           /\ Handled.type = "UserStateMessage"
           /\ Handled.source_process_id \notin input_components) =>
             /\ UNCHANGED <<current_input_components, triggering_message_ids,
                            invoked, last_invocation, pc, raised, errors,
                            published>>
             /\ all_messages_received_for_epoch' = all_messages_received_for_epoch]_vars
    /\ [](\A i \in DOMAIN published :
             Range(published[i].TriggeringMessageIds) \cap UnregisteredIds = {})

\* A message of "D" has been handled while "A" was still awaited, and a
\* later fan-out has published.
C6_Witness ==
    /\ \E m \in delivered :
          /\ m.type = "UserStateMessage"
          /\ m.source_process_id = "D"
          /\ m.message_id = 1
    /\ "D" \in heard
    /\ input_components = {"A"}
    /\ published # <<>>
    /\ published[Len(published)].TriggeringMessageIds # <<>>

\* C7: a further UserStateMessage of a source already in ReceivedSet changes
\* neither ReceivedSet nor TriggeringIds and does not invoke the gate.
C7_DuplicateIsNoOp ==
    [][(/\ Handles
        /\ Handled.type = "UserStateMessage"
        /\ Handled.source_process_id \in current_input_components) =>
          UNCHANGED <<current_input_components, triggering_message_ids,
                      invoked, last_invocation, pc>>]_vars

\* A second message of "A" has been handled while "B" was still awaited.
C7_Witness ==
    /\ last_handled.seen_before
    /\ last_handled.event.source_process_id = "A"
    /\ input_components = {"A", "B"}
    /\ current_input_components = {"A"}
    /\ Len(triggering_message_ids) = 1

\* C8: ReceivedSet is always a subset of RequiredSources; it only grows
\* within an epoch and shrinks only when an epoch signal is handled.
C8_ReceivedSubsetAndMonotone ==
    /\ [](current_input_components \subseteq input_components)
    /\ [][latest_epoch' = latest_epoch =>
             current_input_components \subseteq current_input_components']_vars
    /\ [][~(current_input_components \subseteq current_input_components') =>
             /\ Handles
             /\ Handled.type = "Epoch"
             /\ latest_epoch' > latest_epoch]_vars

\* Epoch 1 registered a source, the reset emptied the set, epoch 2 has
\* registered "A" again.
C8_Witness ==
    /\ latest_epoch = 2
    /\ qualifying[1] # <<>>
    /\ input_components = {"A", "B"}
    /\ current_input_components = {"A"}

\* C9: when a new epoch begins, ReceivedSet and TriggeringIds are empty and,
\* with required sources, readiness is false; it becomes true only when all
\* of them have reported in the new epoch.
C9_ResetClearsEpochState ==
    /\ [][latest_epoch' # latest_epoch =>
             /\ current_input_components' = {}
             /\ triggering_message_ids' = <<>>
             /\ (input_components # {} => ~all_messages_received_for_epoch')]_vars
    /\ []((input_components # {} /\ all_messages_received_for_epoch) => AllHeard)

\* Epoch 1 had all its inputs; the signal of epoch 2 has just been handled.
C9_Witness ==
    /\ latest_epoch = 2
    /\ last_handled.event.type = "Epoch"
    /\ input_components # {}
    /\ invoked[1] = 1
    /\ current_input_components = {}
    /\ triggering_message_ids = <<>>

\* C10: without required sources (INPUT_COMPONENTS empty or made of empty
\* names only) readiness is true from the start of every epoch, and the gate
\* has fired exactly once for every epoch begun, inbound messages or not.
C10_NoInputsFiresOncePerEpoch ==
    /\ \A f \in EnvValues :
          (\A i \in DOMAIN f : f[i] = "") => input_components_of(f) = {}
    /\ input_components = {} =>
          /\ all_messages_received_for_epoch
          /\ \A e \in 1..latest_epoch : invoked[e] = 1

\* Two epochs have fired without any inbound message.
C10_Witness ==
    /\ input_components = {}
    /\ latest_epoch = 2
    /\ invoked[1] = 1
    /\ invoked[2] = 1
    /\ delivered = {}

SendOrder == <<"CarMetaData", "UserState", "CarState">>

IsPrefix(s, t) == Len(s) <= Len(t) /\ \A i \in DOMAIN s : s[i] = t[i]

Attempted(kind, e) == kind \in Range(attempts[e])
ErrorReported(kind, e) == [epoch |-> e, kind |-> kind] \in errors
ErrorIn(e) == \E x \in errors : x.epoch = e

\* C11: the fan-out is not all-or-nothing: a kind that fails stops neither
\* the kinds before it nor the kinds after it, so a fan-out that has ended
\* has attempted all three sends, and what was published stays published.
C11_FailureOfOneKindLeavesTheOthers ==
    /\ \A e \in 1..MaxEpoch :
          FanoutEnded(e) => \A kind \in OutputKinds : Attempted(kind, e)
    /\ \A e \in 1..MaxEpoch :
          (Attempted("UserState", e) /\ PublishedCount("UserState", e) = 0
             /\ FanoutEnded(e)) => Attempted("CarState", e)

\* C12: a kind whose send was called is either published once or not
\* published with an error status reported for it; no exception leaves the
\* fan-out.
C12_FailedKindReportedNotRaised ==
    /\ raised = {}
    /\ \A e \in 1..MaxEpoch : \A kind \in Range(attempts[e]) :
          \/ PublishedCount(kind, e) = 1 /\ ~ErrorReported(kind, e)
          \/ PublishedCount(kind, e) = 0 /\ ErrorReported(kind, e)

EpochCompleted(e) == e \in status_ready /\ ~ErrorIn(e)
EpochFailed(e) == ErrorIn(e) /\ e \notin status_ready

\* C13: an epoch whose fan-out has ended is either completed (no send
\* failed, ready reported) or failed (a send failed, error status reported,
\* ready not reported), never both and never neither.
C13_ExactlyOneTerminalState ==
    /\ \A e \in 1..MaxEpoch :
          FanoutEnded(e) => (EpochCompleted(e) \/ EpochFailed(e))
    /\ \A e \in status_ready : ~ErrorIn(e)

\* C14: after an epoch that ended with an error status, the next epoch
\* starts from empty ReceivedSet and TriggeringIds, the gate fires exactly
\* when all required sources have reported in it, and the fan-out is
\* attempted.
C14_NextEpochRunsAfterError ==
    (latest_epoch >= 2 /\ ErrorIn(latest_epoch - 1)) =>
        /\ current_input_components = heard \cap input_components
        /\ triggering_message_ids = qualifying[latest_epoch]
        /\ invoked[latest_epoch] = (IF AllHeard THEN 1 ELSE 0)
        /\ (invoked[latest_epoch] = 1 /\ pc = "idle") =>
               attempts[latest_epoch] # <<>>

\* Epoch 1 reported an error; in epoch 2 the required source has reported
\* and the fan-out has run.
C14_Witness ==
    /\ latest_epoch = 2
    /\ ErrorIn(1)
    /\ input_components # {}
    /\ invoked[2] = 1
    /\ pc = "idle"
    /\ attempts[2] # <<>>

C17_SendOrderAfterDelay ==
    /\ \A e \in Epochs : IsPrefix(attempts[e], SendOrder)
    /\ pc = "delay" => attempts[last_invocation.epoch] = <<>>

\* A fan-out has called all three sends.
C17_Witness == \E e \in 1..MaxEpoch : attempts[e] = SendOrder

\* C18: every output kind has an output topic of its own, its topic base
\* joined with the component's name, defined at construction, and every
\* send publishes to the topic of its kind.
C18_EveryKindPublishesToItsTopic ==
    /\ \A e \in Epochs : \A kind \in Range(attempts[e]) :
          /\ kind \in DOMAIN output_topics
          /\ output_topics[kind] = <<topic_base(kind), component_name>>
    /\ \A i \in DOMAIN published :
          published[i].topic = <<topic_base(published[i].kind), component_name>>
    /\ \A k1, k2 \in DOMAIN output_topics :
          k1 # k2 => output_topics[k1] # output_topics[k2]

\* C20: TriggeringIds holds one id per member of ReceivedSet, the id of the
\* first message of each registered source in delivery order, and the id
\* is there when process_epoch starts.
C20_OneTriggeringIdPerRegisteredSource ==
    /\ Len(triggering_message_ids) = Cardinality(current_input_components)
    /\ triggering_message_ids = qualifying[latest_epoch]
    /\ pc = "delay" =>
          Len(triggering_message_ids) = Cardinality(last_invocation.received)

\* "A", "A" again and "B" have been handled: two ids for two sources.
C20_Witness ==
    /\ current_input_components = {"A", "B"}
    /\ Len(triggering_message_ids) = 2
    /\ Cardinality({m \in delivered : m.type = "UserStateMessage"
                                      /\ m.source_process_id = "A"}) = 2
    /\ inbox = <<>>

\* C19: construction yields a component that holds the configured set of
\* required sources and the configured output delay.
C19_ConstructionHoldsConfiguration ==
    /\ call.phase \notin {"NameError", "TypeError"}
    /\ call.phase = "constructed" =>
          /\ "_input_components" \in DOMAIN call.attributes
          /\ call.attributes["_input_components"] = call.input_components
          /\ "_output_delay" \in DOMAIN call.attributes
          /\ call.attributes["_output_delay"] = call.output_delay

\* C16: a UserStateMessage that was accepted at construction and published
\* is parsed back by from_json into a message equal to the original, field
\* by field; a JSON object with a field of the wrong type gives None.
C16_UserStateMessageRoundTrip ==
    call.phase = "parsed" =>
        /\ call.original.type = "UserStateMessage" =>
              /\ user_state_message_eq(call.result, call.original)
              /\ py_eq(call.result.user_id, call.original.user_id)
              /\ py_eq(call.result.target_state_of_charge,
                       call.original.target_state_of_charge)
              /\ py_eq(call.result.target_time, call.original.target_time)
        /\ (\/ json_loads(call.json.UserId).type \notin {"int", "bool"}
            \/ json_loads(call.json.TargetStateOfCharge).type # "float"
            \/ json_loads(call.json.TargetTime).type # "str") =>
              call.result = None

\* C21: once every required source has been heard in epoch E, process_epoch
\* is invoked for E, all three sends are called in order and the epoch is
\* completed and reported ready; a message handled after the completion of
\* its epoch neither invokes process_epoch nor changes the gate.
C21_SatisfiedEpochCompletes ==
    /\ \A e \in 1..MaxEpoch :
          (latest_epoch = e /\ AllHeard)
              ~> (/\ invoked[e] = 1
                  /\ attempts[e] = SendOrder
                  /\ completed_epoch >= e
                  /\ e \in status_ready)
    /\ [][(/\ Handles
            /\ Handled.type # "Epoch"
            /\ latest_epoch >= 1
            /\ completed_epoch = latest_epoch)
             => /\ invoked' = invoked
                /\ pc' = "idle"
                /\ current_input_components' = current_input_components
                /\ triggering_message_ids' = triggering_message_ids]_vars

\* C22: handling a message that is not a UserStateMessage changes neither
\* ReceivedSet nor TriggeringIds and does not invoke process_epoch, whatever
\* its source is.
C22_OtherMessageIgnored ==
    [][(Handles /\ Handled.type = "OtherMessage") =>
          /\ UNCHANGED <<current_input_components, triggering_message_ids,
                         invoked, last_invocation, pc>>
          /\ all_messages_received_for_epoch' = all_messages_received_for_epoch]_vars

\* In an announced epoch a message of another kind has been handled whose
\* source is the only required source still awaited.
C22_Witness ==
    /\ last_handled.event.type = "OtherMessage"
    /\ latest_epoch >= 1
    /\ input_components \ current_input_components =
           {last_handled.event.source_process_id}
    /\ pc = "idle"
    /\ invoked[latest_epoch] = 0

=============================================================================
